---- MODULE Spec2Model ----
(***************************************************************************)
(* Smarteefi Home Assistant integration: the polling coordinator           *)
(* (SmarteefiDataUpdateCoordinator in __init__.py), its interval timer,    *)
(* the sync pass with grouping, single retry and dispatch, and the entity  *)
(* update handlers of the four device classes.                             *)
(*                                                                         *)
(* A device id "serial:ignored:smap" is modelled by the triple of its      *)
(* parts <<serial, ignored, smap>> (the result of id.split(':'), with the  *)
(* third part already read by int()); only well-formed ids are modelled.   *)
(* A routing key "serial:smap" is the pair <<serial, smap>>.  The text a   *)
(* command prints is a sequence of one-character strings.                  *)
(***************************************************************************)
EXTENDS Integers, Sequences, FiniteSets, TLC

\* ---------------------------------------------------------------- bounds
\* longest device list of the concurrent specification
MaxDevices == 2
\* longest device list of the single-pass specification
MaxPassDevices == 3
\* coroutines of _async_update that may be suspended at the same time
MaxTasks == 2
\* longest text a get-status command prints
MaxOutLen == 1
\* the counter of initial-interval ticks saturates here
MaxTicks == 2

None == "None"

Serials == {"A", "B"}
Ignoreds == {"x", "y"}
Smaps == {1, 2, 4}
\* every well-formed device id over the small alphabets
DeviceIds == Serials \X Ignoreds \X Smaps
\* the ids of the concurrent specification: one sub-device of each of two units
CoreIds == {<<"A", "x", 1>>, <<"B", "x", 2>>}
\* the ids of the single-pass specification: two sub-devices of one unit, a
\* second prefix of the same serial with an smap of the first, another unit
PassIds == {<<"A", "x", 1>>, <<"A", "x", 2>>, <<"A", "y", 1>>, <<"B", "x", 2>>}

OutputChars == {"0", "7", "x", " "}
Digits == {"0", "7"}

SeqsUpTo(S, n) == UNION {[1..k -> S] : k \in 0..n}

\* what the external process can print
Stdouts == SeqsUpTo(OutputChars, MaxOutLen)

Tasks == 1..MaxTasks

\* ------------------------------------------------------------ pure helpers
RECURSIVE BitOr(_, _)
\* Python's a | b on non-negative integers
BitOr(a, b) ==
    IF a = 0 THEN b
    ELSE IF b = 0 THEN a
    ELSE (IF a % 2 = 1 \/ b % 2 = 1 THEN 1 ELSE 0) + 2 * BitOr(a \div 2, b \div 2)

RECURSIVE BitAnd(_, _)
\* Python's a & b on non-negative integers
BitAnd(a, b) ==
    IF a = 0 \/ b = 0 THEN 0
    ELSE (IF a % 2 = 1 /\ b % 2 = 1 THEN 1 ELSE 0) + 2 * BitAnd(a \div 2, b \div 2)

RECURSIVE LStrip(_)
LStrip(s) == IF s # <<>> /\ Head(s) = " " THEN LStrip(Tail(s)) ELSE s

RECURSIVE RStrip(_)
RStrip(s) ==
    IF s # <<>> /\ s[Len(s)] = " " THEN RStrip(SubSeq(s, 1, Len(s) - 1)) ELSE s

\* str.strip()
Strip(s) == RStrip(LStrip(s))

DigitValue(c) == IF c = "7" THEN 7 ELSE 0

RECURSIVE DecimalValue(_)
DecimalValue(s) ==
    IF s = <<>> THEN 0
    ELSE 10 * DecimalValue(SubSeq(s, 1, Len(s) - 1)) + DigitValue(s[Len(s)])

\* int(output) succeeds: a non-empty run of digits, white space around it allowed
IsIntText(s) == Strip(s) # <<>> /\ \A i \in 1..Len(Strip(s)) : Strip(s)[i] \in Digits

\* int(output) when it succeeds
ParseInt(s) == DecimalValue(Strip(s))

\* ':'.join(parts[:2])
Prefix(id) == <<id[1], id[2]>>

\* f"{dev_parts[0]}:{dev_parts[2]}"
EntityMatchId(id) == <<id[1], id[3]>>

\* ------------------------------------------------------------- the state
VARIABLES
    hass_running,      \* hass.is_running
    is_initial_sync,   \* coordinator._is_initial_sync
    unsub_interval,    \* coordinator._unsub_interval: the interval of the timer it cancels, or None
    timers,            \* armed interval timers of the event loop: interval -> how many
    devices,           \* entry.data["devices"], as the list of ids
    pc,                \* per task: where the coroutine is suspended
    pass_devices,      \* per task: the local `devices` of async_sync_states
    new_devices,       \* per task: the local `new_devices`, the combined ids
    index,             \* per task: the group being processed (enumerate index)
    issued,            \* per task: device-id arguments given to the executor for this group
    outcomes,          \* per task: what the executor returned for this group, in order
    emitted,           \* per task: the dispatcher sends made for this group, in order
    sent_count,        \* per task: sends made in this pass, per position of the device list
    target,            \* per task: <<id>> of the device the entity_id argument names, <<>> for a full pass
    last_tick,         \* the interval of the timer whose tick was handled last, or None
    init_ticks,        \* ticks of the initial-interval timer handled while running (saturating)
    entity,            \* one entity object of a platform, or None
    delivered,         \* the payloads handed to the entity's handler, newest last (at most one kept)
    subscription,      \* the entity's dispatcher connection: "none", "connected" or "removed"
    udp_transport,     \* hass.data[DOMAIN]["udp_transport"]: "open" until close() is called
    datagram,          \* the bytes of the datagram handled last
    published,         \* the dispatcher sends datagram_received made for it
    raised,            \* whether datagram_received let an exception out for it
    call,              \* the helper called last and its argument
    result             \* what that call gave its caller: a value, or an exception

vars == <<hass_running, is_initial_sync, unsub_interval, timers, devices, pc,
          pass_devices, new_devices, index, issued, outcomes, emitted, sent_count,
          target, last_tick, init_ticks, entity, delivered, subscription, udp_transport,
          datagram, published, raised, call, result>>

coordVars == <<is_initial_sync, unsub_interval, timers>>
taskVars == <<pc, pass_devices, new_devices, index, issued, outcomes, emitted, sent_count,
              target>>
histVars == <<last_tick, init_ticks>>
entityVars == <<entity, delivered, subscription>>
udpVars == <<udp_transport, datagram, published, raised>>
callVars == <<call, result>>

\* the names imported from .const; their values are kept symbolic
INITIAL_SYNC_INTERVAL == "INITIAL_SYNC_INTERVAL"
SYNC_INTERVAL == "SYNC_INTERVAL"
Intervals == {INITIAL_SYNC_INTERVAL, SYNC_INTERVAL}

\* ---------------------------------------------------------- the executor
\* how the external process can end: an exit code with its output, or a failure to launch
ProcResults ==
    {[kind |-> "exit", returncode |-> 0, stdout |-> s] : s \in Stdouts}
    \cup {[kind |-> "exit", returncode |-> 1, stdout |-> <<>>],
          [kind |-> "raise", returncode |-> 1, stdout |-> <<>>]}

\* the two ends the concurrent specification tells apart: a status, a failure
CoreProcResults ==
    {[kind |-> "exit", returncode |-> 0, stdout |-> <<"7">>],
     [kind |-> "exit", returncode |-> 1, stdout |-> <<>>]}

\* a byte no UTF-8 text contains
InvalidByte == "0xFF"

\* bytes.decode(): whether it returns; it raises UnicodeDecodeError otherwise
Decodable(bytes) == \A i \in 1..Len(bytes) : bytes[i] # InvalidByte

\* _execute_get_status_command: (success, stdout.decode().strip()); output is
\* None on failure, written <<>> here and never read then.  What decode()
\* raises inside the try block is caught like a failure to launch.
ExecuteGetStatusCommand(proc) ==
    IF proc.kind = "raise" THEN [success |-> FALSE, output |-> <<>>]
    ELSE IF proc.returncode = 0
         THEN IF Decodable(proc.stdout)
              THEN [success |-> TRUE, output |-> Strip(proc.stdout)]
              ELSE [success |-> FALSE, output |-> <<>>]
    ELSE [success |-> FALSE, output |-> <<>>]

\* _execute_cli of the entities: True only when the process exits with 0 and
\* the debug message, which decodes stdout, could be built
ExecuteCli(proc) ==
    IF proc.kind = "raise" THEN FALSE
    ELSE IF proc.returncode = 0 THEN Decodable(proc.stdout)
    ELSE FALSE

\* ------------------------------------------------------------- grouping
\* mutant: the values of a group are added, not OR-ed
CombineValue_Sum(old, value) == old + value

\* combined_devices[prefix] |= value
CombineValue(old, value) == BitOr(old, value)

RECURSIVE CombineDevices(_, _)
\* the loop over devices in async_sync_states; acc is the dict combined_devices
\* as a sequence of <<prefix, value>> in insertion order
CombineDevices(devs, acc) ==
    IF devs = <<>> THEN acc
    ELSE LET d == Head(devs)
             hit == {i \in 1..Len(acc) : acc[i][1] = Prefix(d)}
         IN  IF hit # {}
             THEN CombineDevices(Tail(devs),
                      [acc EXCEPT ![CHOOSE i \in hit : TRUE] =
                                     <<@[1], CombineValue(@[2], d[3])>>])
             ELSE CombineDevices(Tail(devs), Append(acc, <<Prefix(d), d[3]>>))

\* new_devices = [{"id": f"{prefix}:{value}"} ...]
NewDevices(devs) ==
    LET c == CombineDevices(devs, <<>>)
    IN  [i \in 1..Len(c) |-> <<c[i][1][1], c[i][1][2], c[i][2]>>]

\* ------------------------------------------------------------- dispatch
\* mutant: the status is masked with the member's own smap before it is sent
Payload_MaskedStatus(success, output, dev) ==
    IF success /\ IsIntText(output)
    THEN [available |-> TRUE, smap |-> dev[3],
          status |-> BitAnd(dev[3], ParseInt(output))]
    ELSE [available |-> FALSE]

\* mutant: smap is stored before int(output) is tried, and stays on a parse failure
Payload_SmapBeforeParse(success, output, dev) ==
    IF success /\ IsIntText(output)
    THEN [available |-> TRUE, smap |-> dev[3], status |-> ParseInt(output)]
    ELSE IF success THEN [available |-> FALSE, smap |-> dev[3]]
    ELSE [available |-> FALSE]

\* the payload built for one member device dev from the executor's result
Payload(success, output, dev) ==
    IF success /\ IsIntText(output)
    THEN [available |-> TRUE, smap |-> dev[3], status |-> ParseInt(output)]
    ELSE [available |-> FALSE]

\* mutant: members are matched by serial alone
IsMember_BySerial(dev, device) == dev[1] = device[1]

\* whether dev is dispatched to when the group `device` has been polled
IsMember(dev, device) == Prefix(dev) = Prefix(device)

RECURSIVE Sends_GroupSmap(_, _, _, _)
\* mutant: the payload is built from the parts of the combined id, not the member's
Sends_GroupSmap(devs, i, device, res) ==
    IF i > Len(devs) THEN <<>>
    ELSE (IF Prefix(devs[i]) = Prefix(device)
          THEN <<[dev |-> i, key |-> EntityMatchId(devs[i]),
                  payload |-> IF res.success /\ IsIntText(res.output)
                              THEN [available |-> TRUE, smap |-> device[3],
                                    status |-> ParseInt(res.output)]
                              ELSE [available |-> FALSE]]>>
          ELSE <<>>) \o Sends_GroupSmap(devs, i + 1, device, res)

RECURSIVE Sends(_, _, _, _)
\* the dispatch loop of _sync_device_state from position i on: one
\* async_dispatcher_send per member, in list order
Sends(devs, i, device, res) ==
    IF i > Len(devs) THEN <<>>
    ELSE (IF IsMember(devs[i], device)
          THEN <<[dev |-> i, key |-> EntityMatchId(devs[i]),
                  payload |-> Payload(res.success, res.output, devs[i])]>>
          ELSE <<>>) \o Sends(devs, i + 1, device, res)

\* mutant: a failed retry is retried again
NeedsRetry_Twice(res, calls) == ~res.success /\ calls <= 2

\* the first `if not success` retries; the second only logs
NeedsRetry(res, calls) == ~res.success /\ calls = 1

\* ----------------------------------------------------------- coordinator
Min(a, b) == IF a < b THEN a ELSE b

FreeTasks == {t \in Tasks : pc[t] = "idle"}
FreeTask == CHOOSE t \in FreeTasks : \A u \in FreeTasks : t <= u

\* a command execution is awaited by task t
InFlight(t) == pc[t] = "exec"

\* the interval of the timer cancelled by self._unsub_interval()
TimersAfterCancel ==
    IF unsub_interval # None THEN [timers EXCEPT ![unsub_interval] = @ - 1] ELSE timers

\* mutant: the previous timer is not cancelled
SetupInterval_NoCancel(interval) ==
    /\ timers' = [timers EXCEPT ![interval] = @ + 1]
    /\ unsub_interval' = interval

\* _setup_interval(interval_seconds)
SetupInterval(interval) ==
    /\ timers' = [TimersAfterCancel EXCEPT ![interval] = @ + 1]
    /\ unsub_interval' = interval

\* _sync_device_state up to its first await: the command is built and started
BeginGroup(t, devs, groups, i, counts) ==
    /\ pc' = [pc EXCEPT ![t] = "exec"]
    /\ pass_devices' = [pass_devices EXCEPT ![t] = devs]
    /\ new_devices' = [new_devices EXCEPT ![t] = groups]
    /\ index' = [index EXCEPT ![t] = i]
    /\ issued' = [issued EXCEPT ![t] = <<groups[i]>>]
    /\ outcomes' = [outcomes EXCEPT ![t] = <<>>]
    /\ emitted' = [emitted EXCEPT ![t] = <<>>]
    /\ sent_count' = [sent_count EXCEPT ![t] = counts]

\* async_sync_states(entity_id=None) up to its first await
AsyncSyncStates ==
    IF devices = <<>> THEN UNCHANGED taskVars
    ELSE /\ FreeTasks # {}
         /\ BeginGroup(FreeTask, devices, NewDevices(devices), 1,
                       [i \in 1..Len(devices) |-> 0])
         /\ UNCHANGED target

\* mutant: the flag is cleared but the timer is left at the initial interval
SwitchInterval_FlagOnly ==
    IF is_initial_sync
    THEN is_initial_sync' = FALSE /\ UNCHANGED <<unsub_interval, timers>>
    ELSE UNCHANGED coordVars

\* the one-shot switch to the regular interval in _async_update
SwitchInterval ==
    IF is_initial_sync
    THEN is_initial_sync' = FALSE /\ SetupInterval(SYNC_INTERVAL)
    ELSE UNCHANGED coordVars

\* mutant: the update runs whether or not hass is running
AsyncUpdate_NoRunningCheck == SwitchInterval /\ AsyncSyncStates

\* _async_update(now) up to its first await
AsyncUpdate ==
    IF ~hass_running THEN UNCHANGED <<coordVars, taskVars>>
    ELSE SwitchInterval /\ AsyncSyncStates

\* hass finishes starting: hass.is_running becomes true
HassStart ==
    /\ ~hass_running
    /\ hass_running' = TRUE
    /\ UNCHANGED <<coordVars, devices, taskVars, histVars, entityVars, udpVars, callVars>>

\* an armed interval timer fires and runs _async_update(now)
Tick(interval) ==
    /\ timers[interval] > 0
    /\ AsyncUpdate
    /\ last_tick' = interval
    /\ init_ticks' = IF interval = INITIAL_SYNC_INTERVAL /\ hass_running
                     THEN Min(init_ticks + 1, MaxTicks) ELSE init_ticks
    /\ UNCHANGED <<hass_running, devices, entityVars, udpVars, callVars>>

\* mutant: the service polls the devices one by one, without grouping them
HandleSyncStates_Ungrouped ==
    /\ IF ~hass_running THEN UNCHANGED <<coordVars, taskVars>>
       ELSE /\ SwitchInterval
            /\ IF devices = <<>> THEN UNCHANGED taskVars
               ELSE /\ FreeTasks # {}
                    /\ BeginGroup(FreeTask, devices, devices, 1,
                                  [i \in 1..Len(devices) |-> 0])
                    /\ UNCHANGED target
    /\ UNCHANGED <<hass_running, devices, histVars, entityVars, udpVars, callVars>>

\* the sync_states service: handle_sync_states awaits coordinator._async_update()
HandleSyncStates ==
    /\ AsyncUpdate
    /\ UNCHANGED <<hass_running, devices, histVars, entityVars, udpVars, callVars>>

\* mutant: the dispatch is made from the first attempt's result, the retry's
\* result is not taken over
CommandReturn_FirstOutcome(t, proc) ==
    /\ pc[t] = "exec"
    /\ LET res == ExecuteGetStatusCommand(proc)
           device == new_devices[t][index[t]]
           first == IF outcomes[t] = <<>> THEN res ELSE outcomes[t][1]
           sends == Sends(pass_devices[t], 1, device, first)
       IN  /\ outcomes' = [outcomes EXCEPT ![t] = Append(@, res)]
           /\ IF NeedsRetry(res, Len(issued[t]))
              THEN /\ pc' = [pc EXCEPT ![t] = "retry_sleep"]
                   /\ UNCHANGED <<emitted, sent_count>>
              ELSE /\ pc' = [pc EXCEPT ![t] = IF target[t] = <<>> THEN "pause" ELSE "done"]
                   /\ emitted' = [emitted EXCEPT ![t] = sends]
                   /\ sent_count' = [sent_count EXCEPT ![t] =
                          [i \in DOMAIN @ |->
                              @[i] + Cardinality({k \in 1..Len(sends) : sends[k].dev = i})]]
    /\ UNCHANGED <<hass_running, coordVars, devices, pass_devices, new_devices,
                   index, issued, target, histVars, entityVars, udpVars, callVars>>

\* the awaited command of task t ends with proc; _sync_device_state goes on to
\* its next await: the retry delay, or (after the dispatch loop) the pause of
\* a full pass; a targeted call has nothing left to await and is done.  What
\* the coordinator itself holds; the entities' side is added by the callers.
SyncDeviceStateResume(t, proc) ==
    /\ pc[t] = "exec"
    /\ LET res == ExecuteGetStatusCommand(proc)
           device == new_devices[t][index[t]]
           sends == Sends(pass_devices[t], 1, device, res)
       IN  /\ outcomes' = [outcomes EXCEPT ![t] = Append(@, res)]
           /\ IF NeedsRetry(res, Len(issued[t]))
              THEN /\ pc' = [pc EXCEPT ![t] = "retry_sleep"]
                   /\ UNCHANGED <<emitted, sent_count>>
              ELSE /\ pc' = [pc EXCEPT ![t] = IF target[t] = <<>> THEN "pause" ELSE "done"]
                   /\ emitted' = [emitted EXCEPT ![t] = sends]
                   /\ sent_count' = [sent_count EXCEPT ![t] =
                          [i \in DOMAIN @ |->
                              @[i] + Cardinality({k \in 1..Len(sends) : sends[k].dev = i})]]
    /\ UNCHANGED <<hass_running, coordVars, devices, pass_devices, new_devices,
                   index, issued, target, histVars, udpVars, callVars>>

\* the same with no entity connected: the sends reach no handler
CommandReturn(t, proc) ==
    /\ SyncDeviceStateResume(t, proc)
    /\ UNCHANGED entityVars

\* asyncio.sleep(2) of task t is over: the command is started a second time
RetryDelayElapsed(t) ==
    /\ pc[t] = "retry_sleep"
    /\ pc' = [pc EXCEPT ![t] = "exec"]
    /\ issued' = [issued EXCEPT ![t] = Append(@, new_devices[t][index[t]])]
    /\ UNCHANGED <<hass_running, coordVars, devices, pass_devices, new_devices,
                   index, outcomes, emitted, sent_count, target, histVars, entityVars,
                   udpVars, callVars>>

\* the coroutine of task t returns: its locals are gone
Return(t) ==
    /\ pc' = [pc EXCEPT ![t] = "idle"]
    /\ pass_devices' = [pass_devices EXCEPT ![t] = <<>>]
    /\ new_devices' = [new_devices EXCEPT ![t] = <<>>]
    /\ index' = [index EXCEPT ![t] = 0]
    /\ issued' = [issued EXCEPT ![t] = <<>>]
    /\ outcomes' = [outcomes EXCEPT ![t] = <<>>]
    /\ emitted' = [emitted EXCEPT ![t] = <<>>]
    /\ sent_count' = [sent_count EXCEPT ![t] = <<>>]
    /\ target' = [target EXCEPT ![t] = <<>>]

\* asyncio.sleep(1) of task t is over: the next group, or the end of the pass
PauseElapsed(t) ==
    /\ pc[t] = "pause"
    /\ IF index[t] < Len(new_devices[t])
       THEN /\ BeginGroup(t, pass_devices[t], new_devices[t], index[t] + 1, sent_count[t])
            /\ UNCHANGED target
       ELSE Return(t)
    /\ UNCHANGED <<hass_running, coordVars, devices, histVars, entityVars, udpVars, callVars>>

\* mutant: the targeted call polls the first device of the list
SyncEntityState_FirstDevice(id) ==
    /\ IF devices = <<>> \/ (\A i \in 1..Len(devices) : devices[i] # id)
       THEN UNCHANGED taskVars
       ELSE /\ FreeTasks # {}
            /\ BeginGroup(FreeTask, devices, <<devices[1]>>, 1,
                          [i \in 1..Len(devices) |-> 0])
            /\ target' = [target EXCEPT ![FreeTask] = <<id>>]
    /\ UNCHANGED <<hass_running, coordVars, devices, histVars, entityVars, udpVars,
                   callVars>>

\* async_sync_states(entity_id) up to its first await, id being the unique_id
\* the entity registry holds for entity_id: the device with that id is polled
\* under its own id; nothing happens when the list is empty or has no such device
SyncEntityState(id) ==
    /\ IF devices = <<>> \/ (\A i \in 1..Len(devices) : devices[i] # id)
       THEN UNCHANGED taskVars
       ELSE /\ FreeTasks # {}
            /\ BeginGroup(FreeTask, devices, <<id>>, 1,
                          [i \in 1..Len(devices) |-> 0])
            /\ target' = [target EXCEPT ![FreeTask] = <<id>>]
    /\ UNCHANGED <<hass_running, coordVars, devices, histVars, entityVars, udpVars,
                   callVars>>

\* the caller of the targeted call of task t goes on: the call's locals are gone
TargetedReturn(t) ==
    /\ pc[t] = "done"
    /\ Return(t)
    /\ UNCHANGED <<hass_running, coordVars, devices, histVars, entityVars, udpVars,
                   callVars>>

\* mutant: the cancel handle is dropped without being called
AsyncUnload_HandleOnly ==
    /\ unsub_interval' = None
    /\ UNCHANGED <<timers, is_initial_sync>>

\* async_unload: the interval timer is cancelled (_unsub_init is never set)
AsyncUnload ==
    /\ timers' = TimersAfterCancel
    /\ unsub_interval' = None
    /\ UNCHANGED is_initial_sync

\* async_unload_entry of the loaded entry: the transport is closed, the
\* coordinator unloaded; the services and hass.data[DOMAIN]["coordinator"] stay
AsyncUnloadEntry ==
    /\ udp_transport = "open"
    /\ udp_transport' = "closed"
    /\ AsyncUnload
    /\ UNCHANGED <<hass_running, devices, taskVars, histVars, entityVars,
                   datagram, published, raised, callVars>>

\* the coordinator after async_setup_entry: constructed, async_init run
InitCoordinator(lists) ==
    /\ hass_running = FALSE
    /\ is_initial_sync = TRUE
    /\ unsub_interval = INITIAL_SYNC_INTERVAL
    /\ timers = [i \in Intervals |-> IF i = INITIAL_SYNC_INTERVAL THEN 1 ELSE 0]
    /\ devices \in lists
    /\ pc = [t \in Tasks |-> "idle"]
    /\ pass_devices = [t \in Tasks |-> <<>>]
    /\ new_devices = [t \in Tasks |-> <<>>]
    /\ index = [t \in Tasks |-> 0]
    /\ issued = [t \in Tasks |-> <<>>]
    /\ outcomes = [t \in Tasks |-> <<>>]
    /\ emitted = [t \in Tasks |-> <<>>]
    /\ sent_count = [t \in Tasks |-> <<>>]
    /\ target = [t \in Tasks |-> <<>>]
    /\ last_tick = None
    /\ init_ticks = 0
    /\ udp_transport = "open"
    /\ datagram = <<>>
    /\ published = <<>>
    /\ raised = FALSE
    /\ call = [fn |-> "none"]
    /\ result = [kind |-> "none"]

\* the coordinator alone: no entity is looked at
InitWith(lists) ==
    /\ InitCoordinator(lists)
    /\ entity = None
    /\ delivered = <<>>
    /\ subscription = "none"

Init == InitWith(SeqsUpTo(CoreIds, MaxDevices))

Next ==
    \/ HassStart
    \/ \E i \in Intervals : Tick(i)
    \/ HandleSyncStates
    \/ \E t \in Tasks : \E proc \in CoreProcResults : CommandReturn(t, proc)
    \/ \E t \in Tasks : RetryDelayElapsed(t)
    \/ \E t \in Tasks : PauseElapsed(t)
    \/ AsyncUnloadEntry

Spec == Init /\ [][Next]_vars

\* one pass at a time, over every device list up to MaxPassDevices
InitPass == InitWith(SeqsUpTo(PassIds, MaxPassDevices))

NoPassRunning == \A t \in Tasks : pc[t] = "idle"

NextPass ==
    \/ HassStart
    \/ NoPassRunning /\ \E i \in Intervals : Tick(i)
    \/ NoPassRunning /\ HandleSyncStates
    \/ \E proc \in ProcResults : CommandReturn(1, proc)
    \/ RetryDelayElapsed(1)
    \/ PauseElapsed(1)

SpecPass == InitPass /\ [][NextPass]_vars

\* the ends of the process that tell the branches of _sync_device_state apart:
\* a status, outputs that are no integer (empty, a letter), a failing exit
BranchProcResults ==
    {p \in ProcResults : p.kind = "exit" /\ p.stdout \in {<<>>, <<"7">>, <<"x">>}}

NextBranch ==
    \/ HassStart
    \/ NoPassRunning /\ \E i \in Intervals : Tick(i)
    \/ NoPassRunning /\ HandleSyncStates
    \/ \E proc \in BranchProcResults : CommandReturn(1, proc)
    \/ RetryDelayElapsed(1)
    \/ PauseElapsed(1)

\* every command execution returns and every asyncio.sleep ends
FairPass ==
    /\ InitPass /\ [][NextBranch]_vars
    /\ WF_vars(\E proc \in BranchProcResults : CommandReturn(1, proc))
    /\ WF_vars(RetryDelayElapsed(1))
    /\ WF_vars(PauseElapsed(1))

\* targeted calls alone, one at a time, for any device id
NextTarget ==
    \/ NoPassRunning /\ \E id \in PassIds : SyncEntityState(id)
    \/ \E proc \in BranchProcResults : CommandReturn(1, proc)
    \/ RetryDelayElapsed(1)
    \/ TargetedReturn(1)

SpecTarget == InitPass /\ [][NextTarget]_vars

\* ------------------------------------------------------------- entities
\* status words a push packet may carry
PushStatuses ==
    {0, 1, 2, 5, 16, 32, 48, 64, 80, 65280, 16711680, 2131771392, 2131771393}

EntityClasses == {"switch", "fan", "cover", "light"}

\* the payload datagram_received publishes under the key serial:smap
PushPayload(smap, status) == [smap |-> smap, status |-> status, available |-> TRUE]

\* the entity objects as their constructors leave them.  A Python bool is
\* written as its integer value (False 0, True 1): `!=` and truth compare it so.
\* An optional value is <<>> for None and <<v>> for v.
NewSwitch(id) ==
    [class |-> "switch", id |-> id, smap |-> id[3], state |-> 0, available |-> TRUE]

NewFan(id) ==
    [class |-> "fan", id |-> id, smap |-> id[3], state |-> 0,
     percentage |-> <<>>, speed |-> 0]

NewCover(id) ==
    [class |-> "cover", id |-> id, smap |-> id[3], state |-> "closed",
     current_position |-> 0, attr_available |-> TRUE]

NewLight(id) ==
    [class |-> "light", id |-> id, smap |-> id[3], state |-> 0,
     brightness |-> 255, rgb_color |-> <<255, 255, 255>>]

NewEntity(class, id) ==
    CASE class = "switch" -> NewSwitch(id)
      [] class = "fan" -> NewFan(id)
      [] class = "cover" -> NewCover(id)
      [] class = "light" -> NewLight(id)

\* mutant: the smap mask is not applied
OnValue_StatusOnly(smap, status) == status

\* mutant: the mask is OR-ed instead of AND-ed
OnValue_BitOr(smap, status) == IF status # 0 THEN BitOr(smap, status) ELSE 0

\* (status != 0) and (received_smap & status), as the integer Python yields
OnValue(smap, status) == IF status # 0 THEN BitAnd(smap, status) ELSE 0

\* mutant: an update can turn the switch on but never off
SwitchHandleDeviceUpdate_OnlyOn(e, data) ==
    LET avail == IF "available" \in DOMAIN data THEN data.available ELSE TRUE
        e1 == [e EXCEPT !.available = avail]
    IN  IF ~avail THEN e1
        ELSE IF {"status", "smap"} \subseteq DOMAIN data /\ data.smap = e.smap
        THEN [e1 EXCEPT !.state = IF OnValue(data.smap, data.status) # 0
                                  THEN OnValue(data.smap, data.status) ELSE e.state]
        ELSE e1

\* SmarteefiSwitch._handle_device_update
SwitchHandleDeviceUpdate(e, data) ==
    LET avail == IF "available" \in DOMAIN data THEN data.available ELSE TRUE
        e1 == [e EXCEPT !.available = avail]
    IN  IF ~avail THEN e1
        ELSE IF {"status", "smap"} \subseteq DOMAIN data /\ data.smap = e.smap
        THEN [e1 EXCEPT !.state = OnValue(data.smap, data.status)]
        ELSE e1

\* mutant: r2 alone is tested before r2 with r1
FanSpeed_R2First(e, status) ==
    IF BitAnd(status, 64) # 0 THEN <<<<100>>, 4>>
    ELSE IF BitAnd(status, 32) # 0 THEN <<<<50>>, 2>>
    ELSE IF BitAnd(status, 32) # 0 /\ BitAnd(status, 16) # 0 THEN <<<<75>>, 3>>
    ELSE IF BitAnd(status, 16) # 0 THEN <<<<25>>, 1>>
    ELSE <<e.percentage, e.speed>>

\* mutant: a status outside the branches resets the speed
FanSpeed_ResetUnlisted(e, status) ==
    IF BitAnd(status, 64) # 0 THEN <<<<100>>, 4>>
    ELSE IF BitAnd(status, 32) # 0 /\ BitAnd(status, 16) # 0 THEN <<<<75>>, 3>>
    ELSE IF BitAnd(status, 32) # 0 THEN <<<<50>>, 2>>
    ELSE IF BitAnd(status, 16) # 0 THEN <<<<25>>, 1>>
    ELSE <<<<0>>, 0>>

\* the speed branches of the fan handler: <<percentage, speed>>
FanSpeed(e, status) ==
    IF BitAnd(status, 64) # 0 THEN <<<<100>>, 4>>
    ELSE IF BitAnd(status, 32) # 0 /\ BitAnd(status, 16) # 0 THEN <<<<75>>, 3>>
    ELSE IF BitAnd(status, 32) # 0 THEN <<<<50>>, 2>>
    ELSE IF BitAnd(status, 16) # 0 THEN <<<<25>>, 1>>
    ELSE <<e.percentage, e.speed>>

\* SmarteefiFan._handle_device_update; data["smap"] raises KeyError when the
\* payload has no smap, and the handler then leaves the fan as it was
FanHandleDeviceUpdate(e, data) ==
    IF ~({"smap", "status"} \subseteq DOMAIN data) THEN e
    ELSE IF data.smap # e.smap THEN e
    ELSE IF data.status = 0
         THEN [e EXCEPT !.state = 0, !.speed = 0, !.percentage = <<0>>]
         ELSE [e EXCEPT !.state = 1, !.percentage = FanSpeed(e, data.status)[1],
                        !.speed = FanSpeed(e, data.status)[2]]

\* mutant: the closed branch leaves the position as it was
CoverHandleDeviceUpdate_KeepPosition(e, data) ==
    LET e1 == IF "available" \in DOMAIN data
              THEN [e EXCEPT !.attr_available = data.available] ELSE e
    IN  IF "status" \notin DOMAIN data THEN e1
        ELSE LET e2 == [e1 EXCEPT !.attr_available = TRUE]
             IN  IF "smap" \notin DOMAIN data THEN e2
                 ELSE IF data.smap # e.smap THEN e2
                 ELSE IF data.status = e.smap
                      THEN [e2 EXCEPT !.state = "open", !.current_position = 100]
                      ELSE [e2 EXCEPT !.state = "closed"]

\* mutant: the cover is open when the status has a bit of its smap
CoverHandleDeviceUpdate_Overlap(e, data) ==
    LET e1 == IF "available" \in DOMAIN data
              THEN [e EXCEPT !.attr_available = data.available] ELSE e
    IN  IF "status" \notin DOMAIN data THEN e1
        ELSE LET e2 == [e1 EXCEPT !.attr_available = TRUE]
             IN  IF "smap" \notin DOMAIN data THEN e2
                 ELSE IF data.smap # e.smap THEN e2
                 ELSE IF BitAnd(data.status, e.smap) # 0
                      THEN [e2 EXCEPT !.state = "open", !.current_position = 100]
                      ELSE [e2 EXCEPT !.state = "closed", !.current_position = 0]

\* SmarteefiCover._handle_device_update
CoverHandleDeviceUpdate(e, data) ==
    LET e1 == IF "available" \in DOMAIN data
              THEN [e EXCEPT !.attr_available = data.available] ELSE e
    IN  IF "status" \notin DOMAIN data THEN e1
        ELSE LET e2 == [e1 EXCEPT !.attr_available = TRUE]
             IN  IF "smap" \notin DOMAIN data THEN e2
                 ELSE IF data.smap # e.smap THEN e2
                 ELSE IF data.status = e.smap
                      THEN [e2 EXCEPT !.state = "open", !.current_position = 100]
                      ELSE [e2 EXCEPT !.state = "closed", !.current_position = 0]

Max3(a, b, c) ==
    IF a >= b /\ a >= c THEN a ELSE IF b >= c THEN b ELSE c

\* mutant: the channels are read one byte too low
LightColour_Shifted(status) ==
    <<(status \div 65536) % 256, (status \div 256) % 256, status % 256>>

\* (status & 0xFF000000) >> 24, (status & 0x00FF0000) >> 16, (status & 0x0000FF00) >> 8
LightColour(status) ==
    <<(status \div 16777216) % 256, (status \div 65536) % 256, (status \div 256) % 256>>

\* SmarteefiLight._handle_device_update; data["smap"] raises KeyError when the
\* payload has no smap, and the handler then leaves the light as it was
LightHandleDeviceUpdate(e, data) ==
    IF ~({"smap", "status"} \subseteq DOMAIN data) THEN e
    ELSE IF data.smap # e.smap THEN e
    ELSE LET status == data.status
             r == LightColour(status)[1]
             g == LightColour(status)[2]
             b == LightColour(status)[3]
         IN  IF status # 0
             THEN [e EXCEPT !.brightness = Max3(r, g, b), !.rgb_color = <<r, g, b>>,
                            !.state = OnValue(data.smap, status)]
             ELSE [e EXCEPT !.state = 0, !.brightness = 0, !.rgb_color = <<0, 0, 0>>]

\* the handler an entity connected to the dispatcher
HandleDeviceUpdate(e, data) ==
    CASE e.class = "switch" -> SwitchHandleDeviceUpdate(e, data)
      [] e.class = "fan" -> FanHandleDeviceUpdate(e, data)
      [] e.class = "cover" -> CoverHandleDeviceUpdate(e, data)
      [] e.class = "light" -> LightHandleDeviceUpdate(e, data)

\* Entity.available: the switch's property, the cover's _attr_available; the
\* fan and the light define none and keep the base class's True
EntityAvailable(e) ==
    CASE e.class = "switch" -> e.available
      [] e.class = "cover" -> e.attr_available
      [] e.class \in {"fan", "light"} -> TRUE

\* the dispatcher hands a payload published under the entity's key to its handler
Deliver(data) ==
    /\ subscription = "connected"
    /\ entity' = HandleDeviceUpdate(entity, data)
    /\ delivered' = <<data>>
    /\ UNCHANGED subscription
    /\ UNCHANGED <<hass_running, coordVars, devices, taskVars, histVars, udpVars, callVars>>

\* a sync pass polled the entity's group: the executor's last result res is
\* dispatched under the entity's key
DeliverPoll(res) == Deliver(Payload(res.success, res.output, entity.id))

\* a push packet for the entity's key arrived
DeliverPush(status) == Deliver(PushPayload(entity.smap, status))

\* one subscribed entity of any class for any device, just constructed
InitEntity ==
    /\ \E id \in DeviceIds :
          /\ InitCoordinator({<<id>>})
          /\ \E class \in EntityClasses : entity = NewEntity(class, id)
    /\ delivered = <<>>
    /\ subscription = "connected"

NextEntity ==
    \/ \E proc \in ProcResults : DeliverPoll(ExecuteGetStatusCommand(proc))
    \/ \E status \in PushStatuses : DeliverPush(status)

SpecEntity == InitEntity /\ [][NextEntity]_vars

\* -------------------------------------------------------- the UDP listener
\* len(data) < 26
MinPacketLen == 26
\* data[:16]
SerialLen == 16
\* ord(':')
Colon == 58

\* serial_bytes.split(b'\x00')[0]: the bytes before the first NUL
RECURSIVE BeforeNul(_)
BeforeNul(b) ==
    IF b = <<>> \/ Head(b) = 0 THEN <<>> ELSE <<Head(b)>> \o BeforeNul(Tail(b))

\* mutant: every byte is taken for ASCII (decode with errors ignored)
IsAscii_Lenient(b) == TRUE

\* bytes.decode('ascii') accepts exactly the bytes below 128; the text it
\* yields has the same code points, so it is written as the byte sequence
IsAscii(b) == \A i \in DOMAIN b : b[i] < 128

\* mutant: only the first separator is verified
SeparatorsOk_FirstOnly(data) == data[SerialLen + 1] = Colon

\* data[16] == ord(':') and data[21] == ord(':') (Python counts from 0)
SeparatorsOk(data) == data[SerialLen + 1] = Colon /\ data[SerialLen + 6] = Colon

\* mutant: the four bytes are read most significant first
FromLittleEndian_Big(b) == b[4] + 256 * b[3] + 65536 * b[2] + 16777216 * b[1]

\* int.from_bytes(b, byteorder='little', signed=False) of four bytes
FromLittleEndian(b) == b[1] + 256 * b[2] + 65536 * b[3] + 16777216 * b[4]

\* the exceptions the try body can raise; `except Exception` catches them
CaughtExceptions == {"UnicodeDecodeError"}

\* the try body of datagram_received: how it ends and what it sends
DecodePacket(data) ==
    IF Len(data) < MinPacketLen
    THEN [kind |-> "return", exc |-> None, sends |-> <<>>]
    ELSE LET serial_bytes == SubSeq(data, 1, SerialLen)
             serial == BeforeNul(serial_bytes)
         IN  IF ~IsAscii(serial)
             THEN [kind |-> "raise", exc |-> "UnicodeDecodeError", sends |-> <<>>]
             ELSE IF ~SeparatorsOk(data)
             THEN [kind |-> "return", exc |-> None, sends |-> <<>>]
             ELSE LET smap == FromLittleEndian(SubSeq(data, SerialLen + 2, SerialLen + 5))
                      status == FromLittleEndian(SubSeq(data, SerialLen + 7, SerialLen + 10))
                  IN  [kind |-> "ok", exc |-> None,
                       sends |-> <<[key |-> <<serial, smap>>,
                                    payload |-> PushPayload(smap, status)]>>]

\* datagram_received(data, addr) on the open transport
DatagramReceived(data) ==
    /\ udp_transport = "open"
    /\ LET r == DecodePacket(data)
       IN  /\ datagram' = data
           /\ published' = r.sends
           /\ raised' = (r.kind = "raise" /\ r.exc \notin CaughtExceptions)
    /\ UNCHANGED <<hass_running, coordVars, devices, taskVars, histVars, entityVars,
                   udp_transport, callVars>>

\* the datagrams the listener is fed: packets laid out as the decoder reads
\* them, and damaged ones.  Values keep the top bit clear (below 2^31).
SerialTexts == {<<>>, <<65>>, <<65, 66>>, [i \in 1..SerialLen |-> 65]}
WireValues == {0, 2, 5, 258, 65280, 2130706687}
Trailers == {<<>>, <<0>>, <<58, 255>>}

\* four bytes, least significant first
ToLittleEndian(v) ==
    <<v % 256, (v \div 256) % 256, (v \div 65536) % 256, (v \div 16777216) % 256>>

NulPadded(serial) == serial \o [i \in 1..(SerialLen - Len(serial)) |-> 0]

Packet(serial, smap, status, trailer) ==
    NulPadded(serial) \o <<Colon>> \o ToLittleEndian(smap) \o <<Colon>>
        \o ToLittleEndian(status) \o trailer

WellFormed ==
    {Packet(s, m, st, t) : s \in SerialTexts, m \in WireValues, st \in WireValues,
                           t \in Trailers}

BasePackets == {Packet(s, 2, 5, t) : s \in SerialTexts, t \in Trailers}

\* cut below the minimum length
Truncated ==
    {SubSeq(d, 1, n) : d \in BasePackets, n \in {0, 1, SerialLen, MinPacketLen - 1}}

\* a byte above 127 somewhere in the 16-byte serial field
HighByte ==
    {[d EXCEPT ![k] = 200] : d \in BasePackets, k \in {1, 2, 3, SerialLen}}

\* another byte where a separator belongs
BadSeparator ==
    {[d EXCEPT ![k] = x] : d \in BasePackets \cup HighByte,
                           k \in {SerialLen + 1, SerialLen + 6}, x \in {0, 59}}

DatagramInputs == WellFormed \cup Truncated \cup HighByte \cup BadSeparator

\* the listener alone: datagrams arrive until the entry is unloaded
InitUdp == InitWith({<<>>})

NextUdp ==
    \/ \E data \in DatagramInputs : DatagramReceived(data)
    \/ AsyncUnloadEntry

SpecUdp == InitUdp /\ [][NextUdp]_vars

\* ------------------------------------------------- the entity's lifecycle
\* async_added_to_hass: the handler is connected under the entity's key
AddedToHass ==
    /\ subscription = "none"
    /\ subscription' = "connected"
    /\ UNCHANGED <<hass_running, coordVars, devices, taskVars, histVars, entity,
                   delivered, udpVars, callVars>>

\* async_will_remove_from_hass: _update_unsub() takes the handler out
WillRemoveFromHass ==
    /\ subscription = "connected"
    /\ subscription' = "removed"
    /\ UNCHANGED <<hass_running, coordVars, devices, taskVars, histVars, entity,
                   delivered, udpVars, callVars>>

\* the signals the producers send under: serial:smap of any device
RoutingKeys == {EntityMatchId(id) : id \in DeviceIds}

\* what is sent under a key: a failed poll, or a status with the key's smap
PublishStatuses == {0, 1, 2, 16}
PublishPayloads(key) ==
    {[available |-> FALSE]} \cup {PushPayload(key[2], status) : status \in PublishStatuses}

\* mutant: the handler is a target of every signal
IsTarget_AnyKey(key) == subscription = "connected"

\* whether the entity's handler is connected under the signal of key
IsTarget(key) == subscription = "connected" /\ key = EntityMatchId(entity.id)

\* async_dispatcher_send(hass, f"{DOMAIN}_device_update_{key}", payload): the
\* handlers connected under that signal are called with the payload
Publish(key, payload) ==
    /\ published' = <<[key |-> key, payload |-> payload]>>
    /\ IF IsTarget(key)
       THEN /\ entity' = HandleDeviceUpdate(entity, payload)
            /\ delivered' = <<payload>>
       ELSE UNCHANGED <<entity, delivered>>
    /\ UNCHANGED <<hass_running, coordVars, devices, taskVars, histVars, subscription,
                   udp_transport, datagram, raised, callVars>>

\* an entity of any class for any device, constructed and not yet added
InitDispatch ==
    /\ \E id \in DeviceIds :
          /\ InitCoordinator({<<id>>})
          /\ \E class \in EntityClasses : entity = NewEntity(class, id)
    /\ delivered = <<>>
    /\ subscription = "none"

NextDispatch ==
    \/ AddedToHass
    \/ WillRemoveFromHass
    \/ \E key \in RoutingKeys : \E payload \in PublishPayloads(key) : Publish(key, payload)

SpecDispatch == InitDispatch /\ [][NextDispatch]_vars

\* ------------------------------------------ a pass with a connected entity
RECURSIVE RouteSends(_, _, _)
\* the sends from position k on, each handed to the handler of e if it is
\* made under e's key
RouteSends(e, sends, k) ==
    IF k > Len(sends) THEN e
    ELSE RouteSends(IF sends[k].key = EntityMatchId(e.id)
                    THEN HandleDeviceUpdate(e, sends[k].payload) ELSE e,
                    sends, k + 1)

\* the payloads among the sends that are made under the key of e, in order
RoutedPayloads(e, sends) ==
    SelectSeq([k \in 1..Len(sends) |-> sends[k]],
              LAMBDA snd : snd.key = EntityMatchId(e.id))

\* the command of task t ends with proc and the dispatch loop, if it runs,
\* calls the connected entity's handler for each send under its key
CommandReturnRouted(t, proc) ==
    /\ subscription = "connected"
    /\ SyncDeviceStateResume(t, proc)
    /\ LET sends == IF pc'[t] = "retry_sleep" THEN <<>> ELSE emitted'[t]
           mine == RoutedPayloads(entity, sends)
       IN  /\ entity' = RouteSends(entity, sends, 1)
           /\ delivered' = IF mine = <<>> THEN delivered
                           ELSE <<mine[Len(mine)].payload>>
    /\ UNCHANGED subscription

\* a device list and a connected switch entity for one of its devices
InitRoute ==
    /\ InitCoordinator(SeqsUpTo(PassIds, MaxPassDevices) \ {<<>>})
    /\ \E i \in 1..Len(devices) : entity = NewEntity("switch", devices[i])
    /\ delivered = <<>>
    /\ subscription = "connected"

NextRoute ==
    \/ HassStart
    \/ NoPassRunning /\ HandleSyncStates
    \/ \E proc \in BranchProcResults : CommandReturnRouted(1, proc)
    \/ RetryDelayElapsed(1)
    \/ PauseElapsed(1)

SpecRoute == InitRoute /\ [][NextRoute]_vars

\* ------------------------------------------- encoders and executors alone
\* the largest brightness and the largest colour channel handed to the encoders
MaxBrightnessArg == 257
MaxChannel == 256

\* mutant: the quotient is cut off, not rounded
Round100_Truncate(value) == (100 * value) \div 255

\* round((value / 255) * 100): the nearest integer; no value of 0..255 gives a
\* quotient halfway between two integers
Round100(value) == (200 * value + 255) \div 510

\* convert_to_100_range
ConvertTo100Range(value) ==
    IF ~(0 <= value /\ value <= 255) THEN [kind |-> "raise", exc |-> "ValueError"]
    ELSE [kind |-> "return", value |-> Round100(value)]

\* mutant: only the lower end is clamped
Clamp_NoUpper(x) == IF x < 0 THEN 0 ELSE x

\* max(0, min(255, x))
Clamp(x) ==
    LET m == IF x < 255 THEN x ELSE 255
    IN  IF m > 0 THEN m ELSE 0

\* the digits the X presentation type writes
HexDigit(d) ==
    <<"0", "1", "2", "3", "4", "5", "6", "7", "8", "9", "A", "B", "C", "D", "E", "F">>[d + 1]

RECURSIVE HexText(_)
\* a non-negative integer in base 16, without padding
HexText(n) ==
    IF n < 16 THEN <<HexDigit(n)>>
    ELSE Append(HexText(n \div 16), HexDigit(n % 16))

\* "{:02X}": base 16, a sign for a negative number, zero-padded to width 2
\* and never cut
Format02X(n) ==
    LET text == IF n < 0 THEN <<"-">> \o HexText(0 - n) ELSE HexText(n)
    IN  IF Len(text) < 2 THEN <<"0">> \o text ELSE text

\* rgb_to_hex
RgbToHex(rgb_color) ==
    LET r == Clamp(rgb_color[1])
        g == Clamp(rgb_color[2])
        b == Clamp(rgb_color[3])
    IN  <<"#">> \o Format02X(r) \o Format02X(g) \o Format02X(b)

\* the brightness values and colour channels the encoders are called with
BrightnessArgs == (0 - 2)..MaxBrightnessArg
Channels == {0 - 1, 0, 10, 171, 255, MaxChannel}

\* how the process of an executor can end, its output being text or not
ExecProcResults ==
    ProcResults
    \cup {[kind |-> "exit", returncode |-> 0, stdout |-> s] :
            s \in {<<InvalidByte>>, <<"7", InvalidByte>>, <<" ", "7", " ">>}}

\* a caller gets what helper fn gives for arg; nothing else reads or writes
Called(fn, arg, outcome) ==
    /\ call' = [fn |-> fn, arg |-> arg]
    /\ result' = outcome
    /\ UNCHANGED <<hass_running, coordVars, devices, taskVars, histVars, entityVars,
                   udpVars>>

ConvertTo100RangeCall(value) ==
    Called("convert_to_100_range", value, ConvertTo100Range(value))

RgbToHexCall(rgb_color) ==
    Called("rgb_to_hex", rgb_color, [kind |-> "return", value |-> RgbToHex(rgb_color)])

\* the coroutine awaited to its end; the except clauses let nothing out
ExecuteGetStatusCommandCall(proc) ==
    Called("_execute_get_status_command", proc,
           [kind |-> "return", value |-> ExecuteGetStatusCommand(proc)])

ExecuteCliCall(proc) ==
    Called("_execute_cli", proc, [kind |-> "return", value |-> ExecuteCli(proc)])

InitCalls == InitWith({<<>>})

NextCalls ==
    \/ \E value \in BrightnessArgs : ConvertTo100RangeCall(value)
    \/ \E r \in Channels, g \in Channels, b \in Channels : RgbToHexCall(<<r, g, b>>)
    \/ \E proc \in ExecProcResults : ExecuteGetStatusCommandCall(proc)
    \/ \E proc \in ExecProcResults : ExecuteCliCall(proc)

SpecCalls == InitCalls /\ [][NextCalls]_vars

\* --------------------------------------------------- the entities' commands
\* one await of _execute_cli with the command name and its arguments after
\* the cloud id; proc is how the process ends
Cli(name, args, proc) == [cmd |-> name, args |-> args, ok |-> ExecuteCli(proc)]

\* what an operation leaves: the entity, the commands it issued in order, and
\* the exception it let out ("none" when it returned)
Outcome(e, commands, exc) == [entity |-> e, commands |-> commands, exc |-> exc]

\* SmarteefiSwitch.async_turn_on
SwitchTurnOn(e, procs) ==
    LET c == Cli("set-status", <<1>>, procs[1])
    IN  Outcome(IF c.ok THEN [e EXCEPT !.state = 1] ELSE e, <<c>>, "none")

\* SmarteefiSwitch.async_turn_off
SwitchTurnOff(e, procs) ==
    LET c == Cli("set-status", <<0>>, procs[1])
    IN  Outcome(IF c.ok THEN [e EXCEPT !.state = 0] ELSE e, <<c>>, "none")

\* math.ceil(percentage_to_ranged_value(SPEED_RANGE, percentage)) with
\* SPEED_RANGE = (1, 4): the ceiling of 4 * percentage / 100
SpeedOf(percentage) == (4 * percentage + 99) \div 100

\* mutant: the speed is stored before the command's result is known
FanSetPercentage_Optimistic(e, percentage, proc) ==
    LET speed == SpeedOf(percentage)
    IN  IF speed # 0
        THEN LET c == Cli("set-speed", <<speed>>, proc)
             IN  Outcome(IF c.ok THEN [e EXCEPT !.speed = speed, !.state = 1]
                         ELSE [e EXCEPT !.speed = speed], <<c>>, "none")
        ELSE LET c == Cli("set-status", <<0>>, proc)
             IN  Outcome(IF c.ok THEN [e EXCEPT !.state = 0] ELSE e, <<c>>, "none")

\* SmarteefiFan.async_set_percentage
FanSetPercentage(e, percentage, proc) ==
    LET speed == SpeedOf(percentage)
    IN  IF speed # 0
        THEN LET c == Cli("set-speed", <<speed>>, proc)
             IN  Outcome(IF c.ok THEN [e EXCEPT !.speed = speed, !.state = 1] ELSE e,
                         <<c>>, "none")
        ELSE LET c == Cli("set-status", <<0>>, proc)
             IN  Outcome(IF c.ok THEN [e EXCEPT !.state = 0] ELSE e, <<c>>, "none")

\* SmarteefiFan.async_turn_on; percentage is <<>> for None
FanTurnOn(e, percentage, procs) ==
    LET c == Cli("set-status", <<1>>, procs[1])
    IN  IF ~c.ok THEN Outcome(e, <<c>>, "none")
        ELSE LET e1 == [e EXCEPT !.state = 1]
             IN  IF percentage # <<>> /\ percentage[1] # 0
                 THEN LET r == FanSetPercentage(e1, percentage[1], procs[2])
                      IN  Outcome(r.entity, <<c>> \o r.commands, r.exc)
                 ELSE Outcome(e1, <<c>>, "none")

\* SmarteefiFan.async_turn_off
FanTurnOff(e, procs) ==
    LET c == Cli("set-status", <<0>>, procs[1])
    IN  Outcome(IF c.ok THEN [e EXCEPT !.state = 0] ELSE e, <<c>>, "none")

\* SmarteefiCover.async_open_cover
CoverOpen(e, procs) ==
    LET c == Cli("set-status", <<1>>, procs[1])
    IN  Outcome(IF c.ok THEN [e EXCEPT !.current_position = 100, !.state = "open"] ELSE e,
                <<c>>, "none")

\* SmarteefiCover.async_close_cover
CoverClose(e, procs) ==
    LET c == Cli("set-status", <<0>>, procs[1])
    IN  Outcome(IF c.ok THEN [e EXCEPT !.current_position = 0, !.state = "closed"] ELSE e,
                <<c>>, "none")

\* the state the cover takes for a position
CoverStateAt(position) ==
    IF position = 0 THEN "closed" ELSE IF position = 100 THEN "open" ELSE "partially_open"

\* SmarteefiCover.async_set_cover_position: the last branch of the direction
\* chain binds neither status nor percentage, and building the command's
\* argument list then raises UnboundLocalError
CoverSetPosition(e, position, procs) ==
    LET prev_position == e.current_position
        moved == [e EXCEPT !.current_position = position, !.state = CoverStateAt(position)]
        run(status, percentage) ==
            LET c == Cli("set-status", <<status, percentage>>, procs[1])
            IN  Outcome(IF c.ok THEN moved ELSE e, <<c>>, "none")
    IN  IF position = 0 THEN run(0, 0)
        ELSE IF position = 100 THEN run(1, 0)
        ELSE IF position > prev_position THEN run(1, position - prev_position)
        ELSE IF prev_position > position THEN run(0, prev_position - position)
        ELSE Outcome(moved, <<>>, "UnboundLocalError")

\* SmarteefiLight.async_turn_on; kwargs holds <<>> for a key that is not given
LightTurnOn(e, kwargs, procs) ==
    LET brightness == IF kwargs.brightness = <<>> THEN e.brightness ELSE kwargs.brightness[1]
        rgb_color == IF kwargs.rgb_color = <<>> THEN e.rgb_color ELSE kwargs.rgb_color[1]
        c1 == IF rgb_color[1] # 0 \/ rgb_color[3] # 0 \/ rgb_color[2] # 0
              THEN Cli("set-rgb-color", RgbToHex(rgb_color), procs[1])
              ELSE Cli("set-status", <<0>>, procs[1])
        e1 == IF ~c1.ok THEN e
              ELSE IF c1.cmd = "set-rgb-color"
              THEN [e EXCEPT !.state = 1, !.rgb_color = rgb_color]
              ELSE [e EXCEPT !.state = 0]
        intensity == ConvertTo100Range(brightness)
    IN  IF intensity.kind = "raise" THEN Outcome(e1, <<c1>>, intensity.exc)
        ELSE IF intensity.value # 0
        THEN LET c2 == Cli("set-intensity", <<intensity.value>>, procs[2])
             IN  Outcome(IF c2.ok THEN [e1 EXCEPT !.brightness = brightness] ELSE e1,
                         <<c1, c2>>, "none")
        ELSE Outcome(e1, <<c1>>, "none")

\* SmarteefiLight.async_turn_off
LightTurnOff(e, procs) ==
    LET c == Cli("set-status", <<0>>, procs[1])
    IN  Outcome(IF c.ok THEN [e EXCEPT !.state = 0] ELSE e, <<c>>, "none")

\* SmarteefiLight.async_set_rgb_color
LightSetRgbColor(e, rgb_color, procs) ==
    LET c == Cli("set-rgb-color", RgbToHex(rgb_color), procs[1])
    IN  Outcome(IF c.ok THEN [e EXCEPT !.rgb_color = rgb_color] ELSE e, <<c>>, "none")

\* SmarteefiLight.async_set_brightness
LightSetBrightness(e, brightness, procs) ==
    LET intensity == ConvertTo100Range(brightness)
    IN  IF intensity.kind = "raise" THEN Outcome(e, <<>>, intensity.exc)
        ELSE IF intensity.value # 0
        THEN LET c == Cli("set-intensity", <<intensity.value>>, procs[1])
             IN  Outcome(IF c.ok THEN [e EXCEPT !.brightness = brightness] ELSE e,
                         <<c>>, "none")
        ELSE LET c == Cli("set-status", <<0>>, procs[1])
             IN  Outcome(IF c.ok THEN [e EXCEPT !.state = 0] ELSE e, <<c>>, "none")

\* the arguments the operations are called with, and how their processes end
Percentages == {0, 1, 25, 26, 100}
Positions == {0, 1, 40, 70, 99, 100}
Brightnesses == {0, 1, 128, 255}
Colours == {<<0, 0, 0>>, <<255, 0, 16>>}
CliProcs == CoreProcResults \X CoreProcResults

\* operation fn of the entity's class is called with arg and runs to its end
Operate(class, fn, arg, outcome) ==
    /\ entity.class = class
    /\ entity' = outcome.entity
    /\ call' = [fn |-> fn, arg |-> arg]
    /\ result' = [kind |-> IF outcome.exc = "none" THEN "return" ELSE "raise",
                  exc |-> outcome.exc, commands |-> outcome.commands]
    /\ UNCHANGED <<hass_running, coordVars, devices, taskVars, histVars, delivered,
                   subscription, udpVars>>

SwitchCommand(procs) ==
    \/ Operate("switch", "async_turn_on", <<>>, SwitchTurnOn(entity, procs))
    \/ Operate("switch", "async_turn_off", <<>>, SwitchTurnOff(entity, procs))

FanCommand(procs) ==
    \/ \E percentage \in {<<>>} \cup {<<v>> : v \in Percentages} :
          Operate("fan", "async_turn_on", percentage, FanTurnOn(entity, percentage, procs))
    \/ Operate("fan", "async_turn_off", <<>>, FanTurnOff(entity, procs))
    \/ \E percentage \in Percentages :
          Operate("fan", "async_set_percentage", percentage,
                  FanSetPercentage(entity, percentage, procs[1]))

CoverCommand(procs) ==
    \/ Operate("cover", "async_open_cover", <<>>, CoverOpen(entity, procs))
    \/ Operate("cover", "async_close_cover", <<>>, CoverClose(entity, procs))
    \/ \E position \in Positions :
          Operate("cover", "async_set_cover_position", position,
                  CoverSetPosition(entity, position, procs))

LightCommand(procs) ==
    \/ \E brightness \in {<<>>} \cup {<<v>> : v \in Brightnesses} :
       \E rgb_color \in {<<>>} \cup {<<v>> : v \in Colours} :
          LET kwargs == [brightness |-> brightness, rgb_color |-> rgb_color]
          IN  Operate("light", "async_turn_on", kwargs, LightTurnOn(entity, kwargs, procs))
    \/ Operate("light", "async_turn_off", <<>>, LightTurnOff(entity, procs))
    \/ \E rgb_color \in Colours :
          Operate("light", "async_set_rgb_color", rgb_color,
                  LightSetRgbColor(entity, rgb_color, procs))
    \/ \E brightness \in Brightnesses :
          Operate("light", "async_set_brightness", brightness,
                  LightSetBrightness(entity, brightness, procs))

\* the dispatcher calls the entity's handler with data
Update(data) ==
    /\ subscription = "connected"
    /\ entity' = HandleDeviceUpdate(entity, data)
    /\ delivered' = <<data>>
    /\ call' = [fn |-> "_handle_device_update", arg |-> data]
    /\ result' = [kind |-> "return", exc |-> "none", commands |-> <<>>]
    /\ UNCHANGED <<hass_running, coordVars, devices, taskVars, histVars, subscription,
                   udpVars>>

\* a connected entity of any class, for a sub-device of one unit
InitCommands ==
    /\ \E id \in {d \in DeviceIds : d[1] = "A" /\ d[2] = "x"} :
          /\ InitCoordinator({<<id>>})
          /\ \E class \in EntityClasses : entity = NewEntity(class, id)
    /\ delivered = <<>>
    /\ subscription = "connected"

NextCommands ==
    \/ \E procs \in CliProcs : SwitchCommand(procs)
    \/ \E procs \in CliProcs : FanCommand(procs)
    \/ \E procs \in CliProcs : CoverCommand(procs)
    \/ \E procs \in CliProcs : LightCommand(procs)
    \/ \E data \in PublishPayloads(EntityMatchId(entity.id)) : Update(data)

SpecCommands == InitCommands /\ [][NextCommands]_vars

\* ------------------------------------------------------ the device refresh
\* what the inventory request can give: an HTTP status with the "result" and
\* "devices" of the body, or an exception out of the session
HttpOk == 200
Responses ==
    [kind : {"response"}, status : {HttpOk, 500}, result : {"success", "failure"},
     devices : SeqsUpTo(CoreIds, MaxDevices)]
    \cup {[kind |-> "raise", status |-> 0, result |-> "failure", devices |-> <<>>]}

\* fetch_devices: the empty list for a status other than 200 and for a result
\* other than "success"; called only with a response that was received
FetchDevices(response) ==
    IF response.status # HttpOk THEN <<>>
    ELSE IF response.result # "success" THEN <<>>
    ELSE response.devices

\* async_refresh_devices(hass, entry) of the discover_devices service: the
\* fetched list replaces the stored one, the entities of the devices no
\* longer listed are removed, and the platforms are reloaded, which builds the
\* entities of the listed devices anew; an exception leaves all as it was
AsyncRefreshDevices(response) ==
    /\ call' = [fn |-> "async_refresh_devices", arg |-> response]
    /\ IF response.kind = "raise"
       THEN /\ result' = [kind |-> "return", value |-> FALSE]
            /\ UNCHANGED <<devices, entityVars>>
       ELSE LET fetched == FetchDevices(response)
                listed == \E i \in 1..Len(fetched) : fetched[i] = entity.id
            IN  /\ result' = [kind |-> "return", value |-> None]
                /\ devices' = fetched
                /\ IF listed
                   THEN /\ entity' = NewEntity(entity.class, entity.id)
                        /\ subscription' = "connected"
                        /\ delivered' = <<>>
                   ELSE /\ subscription' = "removed"
                        /\ UNCHANGED <<entity, delivered>>
    /\ UNCHANGED <<hass_running, coordVars, taskVars, histVars, udpVars>>

\* a stored device list and the connected entity of one of its devices
InitRefresh ==
    /\ InitCoordinator(SeqsUpTo(CoreIds, MaxDevices) \ {<<>>})
    /\ \E i \in 1..Len(devices) : \E class \in EntityClasses :
          entity = NewEntity(class, devices[i])
    /\ delivered = <<>>
    /\ subscription = "connected"

NextRefresh ==
    \/ \E response \in Responses : AsyncRefreshDevices(response)
    \/ \E status \in PublishStatuses : subscription = "connected" /\ DeliverPush(status)

SpecRefresh == InitRefresh /\ [][NextRefresh]_vars

\* ================================================================ claims
\* positions of the device list of task t that belong to the group being polled
Members(t) ==
    {i \in 1..Len(pass_devices[t]) :
        /\ pass_devices[t][i][1] = new_devices[t][index[t]][1]
        /\ pass_devices[t][i][2] = new_devices[t][index[t]][2]}

\* the dispatch loop of the current group of task t has run
GroupDone(t) == pc[t] = "pause"

\* the sends of the current group made for position i
SendsFor(t, i) == {k \in 1..Len(emitted[t]) : emitted[t][k].dev = i}

\* the result the dispatch of the current group was made from
LastOutcome(t) == outcomes[t][Len(outcomes[t])]

\* C1: when the get-status command of a group fails and its single retry
\* fails too, the executor has been invoked exactly twice for the group, the
\* dispatch has run, and every device with the group's prefix has been sent a
\* StatusUpdate with available = false under its own key.
C1_RetryExhausted ==
    \A t \in Tasks :
        (Len(outcomes[t]) >= 2 /\ ~outcomes[t][1].success /\ ~outcomes[t][2].success)
        => /\ GroupDone(t)
           /\ Len(issued[t]) = 2
           /\ Len(outcomes[t]) = 2
           /\ \A i \in Members(t) :
                 \E k \in SendsFor(t, i) :
                    /\ emitted[t][k].key = <<pass_devices[t][i][1], pass_devices[t][i][3]>>
                    /\ emitted[t][k].payload.available = FALSE

C1_Witness ==
    \E t \in Tasks :
        /\ Len(outcomes[t]) = 2 /\ ~outcomes[t][1].success /\ ~outcomes[t][2].success
        /\ Cardinality(Members(t)) >= 2
        /\ Len(emitted[t]) >= 2

\* C2: no two get-status command executions are in flight at the same time.
C2_OneCommandInFlight == Cardinality({t \in Tasks : InFlight(t)}) <= 1

\* C3: when the command of a group succeeds with integer output s, each member
\* device has been sent exactly one StatusUpdate, under its own key
\* serial:smap, with available = true and status the full word s.
C3_SuccessDispatch ==
    \A t \in Tasks :
        (GroupDone(t) /\ LastOutcome(t).success /\ IsIntText(LastOutcome(t).output))
        => \A i \in Members(t) :
              /\ Cardinality(SendsFor(t, i)) = 1
              /\ \A k \in SendsFor(t, i) :
                    /\ emitted[t][k].key = <<pass_devices[t][i][1], pass_devices[t][i][3]>>
                    /\ emitted[t][k].payload.available = TRUE
                    /\ emitted[t][k].payload.status = ParseInt(LastOutcome(t).output)

C3_Witness ==
    \E t \in Tasks :
        /\ GroupDone(t) /\ LastOutcome(t).success
        /\ IsIntText(LastOutcome(t).output) /\ ParseInt(LastOutcome(t).output) = 7
        /\ \E i, j \in Members(t) : pass_devices[t][i][3] # pass_devices[t][j][3]

\* bit k of the non-negative integer n
Bit(n, k) == (n \div (2 ^ k)) % 2

\* m is the bitwise OR of the smap values at the positions S of the list devs
IsOrOf(m, devs, S) ==
    /\ m < 2 ^ 4
    /\ \A k \in 0..3 : (Bit(m, k) = 1) <=> (\E i \in S : Bit(devs[i][3], k) = 1)

\* C4 as claimed: every available = true StatusUpdate of the coordinator
\* carries the combined smap of the group in its smap field.
C4_CarriesCombinedSmap ==
    \A t \in Tasks : \A k \in 1..Len(emitted[t]) :
        emitted[t][k].payload.available
        => IsOrOf(emitted[t][k].payload.smap, pass_devices[t], Members(t))

\* C4 as amended: every available = true StatusUpdate of the coordinator
\* carries the smap of the member device it is sent for.
C4_CarriesOwnSmap ==
    \A t \in Tasks : \A k \in 1..Len(emitted[t]) :
        emitted[t][k].payload.available
        => emitted[t][k].payload.smap = pass_devices[t][emitted[t][k].dev][3]

C4_Witness ==
    \E t \in Tasks : \E k \in 1..Len(emitted[t]) :
        /\ emitted[t][k].payload.available
        /\ emitted[t][k].payload.smap # new_devices[t][index[t]][3]

\* C5: a pass partitions the device list into exactly one group per distinct
\* serial:ignored prefix, the combined bitmask of a group is the bitwise OR of
\* the smap values of the devices with that prefix, and when the first attempt
\* succeeds exactly one command is issued for the group, with device id
\* prefix:combined.
C5_Grouping ==
    \A t \in Tasks :
        pc[t] # "idle"
        => /\ \A i \in 1..Len(pass_devices[t]) :
                 Cardinality({g \in 1..Len(new_devices[t]) :
                     /\ new_devices[t][g][1] = pass_devices[t][i][1]
                     /\ new_devices[t][g][2] = pass_devices[t][i][2]}) = 1
           /\ \A g \in 1..Len(new_devices[t]) :
                 LET S == {i \in 1..Len(pass_devices[t]) :
                              /\ pass_devices[t][i][1] = new_devices[t][g][1]
                              /\ pass_devices[t][i][2] = new_devices[t][g][2]}
                 IN  S # {} /\ IsOrOf(new_devices[t][g][3], pass_devices[t], S)
           /\ (GroupDone(t) /\ outcomes[t][1].success)
              => issued[t] = <<new_devices[t][index[t]]>>

C5_Witness ==
    \E t \in Tasks :
        /\ pass_devices[t] = <<<<"A", "x", 1>>, <<"B", "x", 2>>, <<"A", "x", 2>>>>
        /\ new_devices[t] = <<<<"A", "x", 3>>, <<"B", "x", 2>>>>
        /\ index[t] = 1
        /\ GroupDone(t) /\ outcomes[t][1].success
        /\ issued[t] = <<<<"A", "x", 3>>>>

\* C6: when the command exits successfully but its output is not an integer,
\* every member device has been sent a StatusUpdate with available = false
\* and neither status nor smap.
C6_ParseFailure ==
    \A t \in Tasks :
        (GroupDone(t) /\ LastOutcome(t).success /\ ~IsIntText(LastOutcome(t).output))
        => \A i \in Members(t) :
              /\ SendsFor(t, i) # {}
              /\ \A k \in SendsFor(t, i) :
                    /\ DOMAIN emitted[t][k].payload = {"available"}
                    /\ emitted[t][k].payload.available = FALSE

C6_Witness ==
    \E t \in Tasks :
        /\ GroupDone(t) /\ LastOutcome(t).success
        /\ LastOutcome(t).output = <<"x">>
        /\ Len(emitted[t]) >= 2

\* the pass of task t returns in this step
PassEnds(t) == pc[t] = "pause" /\ pc'[t] = "idle"

\* C7: provided every command execution returns, a pass that has started
\* ends, and when it ends every device of the list has been sent exactly one
\* StatusUpdate.  (The single pass of SpecPass runs as task 1.)
C7_EveryDeviceOnce ==
    /\ (pc[1] # "idle") ~> (pc[1] = "idle")
    /\ [][\A t \in Tasks :
            PassEnds(t) => \A i \in 1..Len(pass_devices[t]) : sent_count[t][i] = 1]_vars

\* the last group of a pass over three devices in two groups has been dispatched
C7_Witness ==
    \E t \in Tasks :
        /\ pc[t] = "pause"
        /\ index[t] = Len(new_devices[t])
        /\ Len(pass_devices[t]) = 3
        /\ Len(new_devices[t]) = 2
        /\ \A i \in 1..3 : sent_count[t][i] = 1

\* C8: after an available = false StatusUpdate was delivered to a subscribed
\* entity it reports unavailable, and after an available = true one available.
C8_AvailabilityFollowsUpdate ==
    delivered # <<>> => EntityAvailable(entity) = delivered[1].available

\* C9: the coordinator starts in Initial, and once it is in Regular it stays
\* there and no timer is armed at the initial interval.
C9_OneShot ==
    /\ (is_initial_sync = TRUE /\ timers[INITIAL_SYNC_INTERVAL] = 1)
    /\ [][~is_initial_sync
            => (~is_initial_sync' /\ timers'[INITIAL_SYNC_INTERVAL] = 0)]_vars

\* in Regular, a tick of the regular timer handled, a pass under way
C9_Witness ==
    /\ ~is_initial_sync
    /\ last_tick = SYNC_INTERVAL
    /\ timers[SYNC_INTERVAL] = 1
    /\ \E t \in Tasks : pc[t] = "pause"

\* C10 as claimed: once the first timer tick after setup has been handled, the
\* timer is no longer armed at the initial interval.
C10_FirstTickSwitches == last_tick # None => timers[INITIAL_SYNC_INTERVAL] = 0

\* C10 as amended: at most one tick of the initial-interval timer is handled
\* while the host is running, and after it the coordinator is in Regular: the
\* armed timer, if any, is the one at the regular interval.
C10_FirstRunningTickSwitches ==
    /\ init_ticks <= 1
    /\ init_ticks = 1
       => /\ ~is_initial_sync
          /\ timers[INITIAL_SYNC_INTERVAL] = 0
          /\ timers[SYNC_INTERVAL] = (IF unsub_interval = None THEN 0 ELSE 1)
          /\ unsub_interval \in {None, SYNC_INTERVAL}

\* one tick at the initial interval, then a tick of the regular timer, whose
\* pass is at its second group
C10_Witness ==
    /\ init_ticks = 1
    /\ last_tick = SYNC_INTERVAL
    /\ timers[SYNC_INTERVAL] = 1
    /\ \E t \in Tasks : index[t] = 2

\* C11: a tick handled while hass is not running issues no command, sends no
\* StatusUpdate and leaves the initial-sync flag, the armed timers and the
\* cancel handle as they were.
C11_NotRunningTickIsNoOp ==
    [][\A i \in Intervals :
          (~hass_running /\ Tick(i)) => UNCHANGED <<coordVars, taskVars>>]_vars

\* a tick of the initial timer was handled before hass started, with devices to poll
C11_Witness ==
    /\ ~hass_running
    /\ last_tick = INITIAL_SYNC_INTERVAL
    /\ devices # <<>>
    /\ is_initial_sync /\ timers[INITIAL_SYNC_INTERVAL] = 1
    /\ \A t \in Tasks : pc[t] = "idle"

\* C12: once async_unload_entry has completed, no timer tick starts a sync
\* pass and no datagram is handled.
C12_NoSyncAfterUnload ==
    [][udp_transport = "closed"
         => /\ \A i \in Intervals : ~(Tick(i) /\ pc' # pc)
            /\ datagram' = datagram /\ published' = published]_vars

\* C13: once async_unload_entry has completed, the coordinator sends no
\* StatusUpdate, whatever command was in flight.
C13_NoDispatchAfterUnload ==
    [][udp_transport = "closed"
         => \A t \in Tasks : Len(emitted'[t]) <= Len(emitted[t])]_vars

\* C14: a datagram laid out as NUL-padded ASCII serial, ':', little-endian
\* smap, ':', little-endian status and any trailing bytes makes the listener
\* send exactly one StatusUpdate, under the key serial:smap, with available
\* true and exactly that smap and status.
C14_RoundTrip ==
    \A s \in SerialTexts, m \in WireValues, st \in WireValues, t \in Trailers :
        datagram = Packet(s, m, st, t)
        => /\ published = <<[key |-> <<s, m>>,
                             payload |-> [smap |-> m, status |-> st, available |-> TRUE]]>>
           /\ ~raised

\* a two-letter serial, multi-byte values and trailing bytes were decoded
C14_Witness ==
    /\ datagram = Packet(<<65, 66>>, 258, 2130706687, <<58, 255>>)
    /\ Len(published) = 1

\* C15: a datagram shorter than 26 bytes, or with another byte than ':' at
\* offset 16 or 21, leads to no StatusUpdate and the handler does not raise.
C15_MalformedDropped ==
    (\/ Len(datagram) < 26
     \/ datagram[17] # Colon
     \/ datagram[22] # Colon)
    => (published = <<>> /\ ~raised)

\* a long enough datagram with an ASCII serial and a wrong second separator was dropped
C15_Witness ==
    /\ Len(datagram) >= 26
    /\ \A i \in 1..16 : datagram[i] < 128
    /\ datagram[17] = Colon /\ datagram[22] # Colon
    /\ published = <<>> /\ ~raised

\* C16 as stated: a byte above 127 anywhere in bytes 0-15 leads to no StatusUpdate.
C16_HighByteAnywhereRejected ==
    (Len(datagram) >= 26 /\ \E i \in 1..16 : datagram[i] >= 128)
    => published = <<>>

\* C16: a byte above 127 in the serial identifier, the bytes of the serial
\* field before its first NUL, leads to no StatusUpdate, and the handler does
\* not raise.
C16_HighByteInSerialRejected ==
    (Len(datagram) >= 26
     /\ \E i \in 1..16 : datagram[i] >= 128 /\ \A j \in 1..i : datagram[j] # 0)
    => (published = <<>> /\ ~raised)

\* a datagram that is well formed but for a high first serial byte was dropped
C16_Witness ==
    /\ Len(datagram) >= 26
    /\ datagram[1] >= 128
    /\ datagram[17] = Colon /\ datagram[22] = Colon
    /\ published = <<>> /\ ~raised

\* the payload delivered last carries a status and the entity's own smap
MatchingUpdate ==
    /\ delivered # <<>>
    /\ {"status", "smap", "available"} \subseteq DOMAIN delivered[1]
    /\ delivered[1].available
    /\ delivered[1].smap = entity.smap

\* the integers a and b have a set bit in common
Overlap(a, b) == \E k \in 0..30 : Bit(a, k) = 1 /\ Bit(b, k) = 1

\* C17: after an available StatusUpdate with status s and the switch's own
\* smap m was delivered to a switch, the switch is on exactly when s is not 0
\* and m and s have a set bit in common.
C17_SwitchDecoding ==
    (entity.class = "switch" /\ MatchingUpdate)
    => ((entity.state # 0) <=> (delivered[1].status # 0
                                /\ Overlap(entity.smap, delivered[1].status)))

\* a switch with smap 4 is on after status 5
C17_Witness ==
    /\ entity.class = "switch" /\ entity.smap = 4
    /\ MatchingUpdate /\ delivered[1].status = 5
    /\ entity.state # 0

\* C18 as stated: a switch with smap 2 is on after status 5.
C18_OverlapVectorOn ==
    (entity.class = "switch" /\ entity.smap = 2 /\ MatchingUpdate
     /\ delivered[1].status = 5)
    => entity.state # 0

\* C18: a switch with smap 2 is off after status 5 (2 and 5 share no bit).
C18_OverlapVectorOff ==
    (entity.class = "switch" /\ entity.smap = 2 /\ MatchingUpdate
     /\ delivered[1].status = 5)
    => entity.state = 0

\* status 5 was delivered to a switch with smap 2, which is off
C18_Witness ==
    /\ entity.class = "switch" /\ entity.smap = 2
    /\ MatchingUpdate /\ delivered[1].status = 5
    /\ entity.state = 0

\* C19: after a StatusUpdate with status s and the fan's own smap, the fan is
\* off with speed 0 when s = 0 and on otherwise, and its speed is 4 when bit
\* 0x40 is set, else 3 when 0x20 and 0x10 are set, else 2 when 0x20 is set,
\* else 1 when 0x10 is set.
C19_FanDecoding ==
    (entity.class = "fan" /\ MatchingUpdate)
    => LET s == delivered[1].status
           r1 == Bit(s, 4) = 1
           r2 == Bit(s, 5) = 1
           r3 == Bit(s, 6) = 1
       IN  /\ (s = 0) => (entity.state = 0 /\ entity.speed = 0)
           /\ (s # 0) => entity.state = 1
           /\ r3 => entity.speed = 4
           /\ (~r3 /\ r2 /\ r1) => entity.speed = 3
           /\ (~r3 /\ r2 /\ ~r1) => entity.speed = 2
           /\ (~r3 /\ ~r2 /\ r1) => entity.speed = 1

\* a fan decoded status 0x30 to speed 3
C19_Witness ==
    /\ entity.class = "fan"
    /\ MatchingUpdate /\ delivered[1].status = 48
    /\ entity.state = 1 /\ entity.speed = 3

\* C20: a StatusUpdate with the fan's own smap and a status that is not 0 and
\* has none of the bits 0x10, 0x20, 0x40 leaves the fan on and its speed and
\* percentage as they were.
C20_UnlistedBitsKeepSpeed ==
    [][(/\ entity.class = "fan"
        /\ delivered' # <<>>
        /\ {"status", "smap"} \subseteq DOMAIN delivered'[1]
        /\ delivered'[1].smap = entity.smap
        /\ delivered'[1].status # 0
        /\ \A k \in 4..6 : Bit(delivered'[1].status, k) = 0)
       => (/\ entity'.state = 1
           /\ entity'.speed = entity.speed
           /\ entity'.percentage = entity.percentage)]_vars

\* a fan at speed 3 received status 5 and is still on at speed 3
C20_Witness ==
    /\ entity.class = "fan"
    /\ MatchingUpdate /\ delivered[1].status = 5
    /\ entity.state = 1 /\ entity.speed = 3 /\ entity.percentage = <<75>>

\* what an entity reports of its device: on/off, speed, position, colour, brightness
Semantic(e) ==
    CASE e.class = "switch" -> <<e.state # 0>>
      [] e.class = "fan" -> <<e.state, e.speed, e.percentage>>
      [] e.class = "cover" -> <<e.state, e.current_position>>
      [] e.class = "light" -> <<e.state # 0, e.brightness, e.rgb_color>>

\* this step hands the entity an available update with a status and its own smap
UpdateStep ==
    /\ delivered' # <<>>
    /\ {"status", "smap", "available"} \subseteq DOMAIN delivered'[1]
    /\ delivered'[1].available
    /\ delivered'[1].smap = entity.smap

\* the entity as it would be had the update reached it just constructed
FreshlyUpdated == HandleDeviceUpdate(NewEntity(entity.class, entity.id), delivered'[1])

\* a status that is not 0 and has none of the fan's speed bits
UnlistedFanStatus(s) == s # 0 /\ \A k \in 4..6 : Bit(s, k) = 0

\* C21 as stated: for every class, what the entity reports after an update
\* does not depend on what it held before.
C21_DecodingIsPure ==
    [][UpdateStep => Semantic(entity') = Semantic(FreshlyUpdated)]_vars

\* C21: what a switch, cover or light reports after an update does not depend
\* on what it held before; neither does what a fan reports, except that a
\* status other than 0 without any speed bit decides on/off only.
C21_PureButFanSpeed ==
    [][UpdateStep
        => IF entity.class = "fan" /\ UnlistedFanStatus(delivered'[1].status)
           THEN entity'.state = FreshlyUpdated.state
           ELSE Semantic(entity') = Semantic(FreshlyUpdated)]_vars

\* a cover with smap 2 took an update with status 5 and is closed
C21_Witness ==
    /\ entity.class = "cover" /\ entity.smap = 2
    /\ MatchingUpdate /\ delivered[1].status = 5
    /\ entity.state = "closed" /\ entity.current_position = 0

\* C22: after an update with status s and the cover's own smap m the cover is
\* open at position 100 when s = m and closed at position 0 otherwise; its
\* position is never strictly between 0 and 100.
C22_CoverDecoding ==
    entity.class = "cover"
    => /\ entity.current_position \in {0, 100}
       /\ MatchingUpdate
          => IF delivered[1].status = entity.smap
             THEN entity.state = "open" /\ entity.current_position = 100
             ELSE entity.state = "closed" /\ entity.current_position = 0

\* a cover with smap 2 is open after status 2
C22_Witness ==
    /\ entity.class = "cover" /\ entity.smap = 2
    /\ MatchingUpdate /\ delivered[1].status = 2
    /\ entity.state = "open" /\ entity.current_position = 100

\* C23: after an update with a status s other than 0 the light's colour is
\* (bits 31-24, bits 23-16, bits 15-8) of s and its brightness the largest of
\* the three.
C23_LightColour ==
    (entity.class = "light" /\ MatchingUpdate /\ delivered[1].status # 0)
    => LET s == delivered[1].status
           c == entity.rgb_color
       IN  /\ c = <<(s \div 2 ^ 24) % 2 ^ 8, (s \div 2 ^ 16) % 2 ^ 8, (s \div 2 ^ 8) % 2 ^ 8>>
           /\ \A i \in 1..3 : entity.brightness >= c[i]
           /\ \E i \in 1..3 : entity.brightness = c[i]

\* a light decoded 0x7F104001 to colour (127, 16, 64), brightness 127
C23_Witness ==
    /\ entity.class = "light" /\ entity.smap = 1
    /\ MatchingUpdate /\ delivered[1].status = 2131771393
    /\ entity.rgb_color = <<127, 16, 64>> /\ entity.brightness = 127

\* C24: after an update with status s the light is on exactly when s is not
\* 0, and a light that is off after an update has colour (0,0,0) and brightness 0.
C24_LightOnIffNonZero ==
    (entity.class = "light" /\ MatchingUpdate)
    => /\ (entity.state # 0) <=> (delivered[1].status # 0)
       /\ (entity.state = 0) => (entity.rgb_color = <<0, 0, 0>> /\ entity.brightness = 0)

\* the hexadecimal digits in upper case
UpperHex == <<"0", "1", "2", "3", "4", "5", "6", "7", "8", "9", "A", "B", "C", "D", "E", "F">>

\* C25: for every integer v in 0..255 the brightness encoder returns the
\* integer nearest to v/255*100, which lies in 0..100, with 0 for 0 and 100
\* for 255; for every v outside 0..255 it raises a domain error (ValueError)
\* and returns no value
C25_BrightnessEncoding ==
    call.fn = "convert_to_100_range" =>
        LET v == call.arg
        IN  IF v \in 0..255
            THEN /\ result.kind = "return"
                 /\ result.value \in 0..100
                 /\ 2 * (255 * result.value - 100 * v) <= 255
                 /\ 2 * (100 * v - 255 * result.value) <= 255
                 /\ (v = 0 => result.value = 0)
                 /\ (v = 255 => result.value = 100)
            ELSE result = [kind |-> "raise", exc |-> "ValueError"]

\* the encoder was called with 256 and raised
C25_Witness ==
    /\ call.fn = "convert_to_100_range"
    /\ call.arg = 256
    /\ result.kind = "raise"

\* C26: for every integer triplet (r, g, b) the colour encoder returns, and
\* what it returns is "#" followed by each channel, clamped to 0..255, as two
\* upper-case hexadecimal digits: seven characters, no error
C26_ColourEncoding ==
    call.fn = "rgb_to_hex" =>
        LET clamped == [i \in 1..3 |->
                           IF call.arg[i] < 0 THEN 0
                           ELSE IF call.arg[i] > 255 THEN 255 ELSE call.arg[i]]
            two(c) == <<UpperHex[(c \div 16) + 1], UpperHex[(c % 16) + 1]>>
        IN  /\ result.kind = "return"
            /\ Len(result.value) = 7
            /\ result.value = <<"#">> \o two(clamped[1]) \o two(clamped[2]) \o two(clamped[3])

\* the encoder was called with (-1, 10, 256) and returned #000AFF
C26_Witness ==
    /\ call.fn = "rgb_to_hex"
    /\ call.arg = <<0 - 1, 10, 256>>
    /\ result = [kind |-> "return", value |-> <<"#", "0", "0", "0", "A", "F", "F">>]

\* C27: an executor never raises, reports success with the stripped stdout
\* for every process that exits with 0, and failure for a non-zero exit code
\* and for a process that could not be started
C27_ExecutorClassifies ==
    /\ call.fn = "_execute_get_status_command" =>
          /\ result.kind = "return"
          /\ IF call.arg.kind = "exit" /\ call.arg.returncode = 0
             THEN /\ result.value.success
                  /\ result.value.output = Strip(call.arg.stdout)
             ELSE ~result.value.success
    /\ call.fn = "_execute_cli" =>
          /\ result.kind = "return"
          /\ result.value = (call.arg.kind = "exit" /\ call.arg.returncode = 0)

\* C28: a publication invokes the entity's handler exactly when the entity is
\* subscribed at that moment and the publication's key is the entity's own
\* serial:smap; the handler is invoked by nothing else, so subscribing later
\* replays no earlier publication
C28_DeliveredIffSubscribed ==
    /\ [][\A key \in RoutingKeys : \A payload \in PublishPayloads(key) :
            Publish(key, payload) =>
                IF subscription = "connected" /\ key = <<entity.id[1], entity.id[3]>>
                THEN delivered' = <<payload>> /\ entity' = HandleDeviceUpdate(entity, payload)
                ELSE entity' = entity /\ delivered' = delivered]_vars
    /\ [][(entity' # entity \/ delivered' # delivered) =>
            /\ subscription = "connected"
            /\ subscription' = "connected"
            /\ published' # <<>>
            /\ published'[1].key = <<entity.id[1], entity.id[3]>>
            /\ delivered' = <<published'[1].payload>>]_vars

\* a removed entity holds the update it was handed while subscribed, and a
\* different update published under its key afterwards has not reached it
C28_Witness ==
    /\ subscription = "removed"
    /\ delivered # <<>>
    /\ published # <<>>
    /\ published[1].key = EntityMatchId(entity.id)
    /\ published[1].payload # delivered[1]

\* a step starts a full pass over the device list: a free task takes the list,
\* its groups, and has issued the command for the first group and nothing else;
\* with no devices no task changes
StartsFullPass ==
    IF devices = <<>> THEN UNCHANGED taskVars
    ELSE \E t \in Tasks :
            /\ pc[t] = "idle"
            /\ pc'[t] = "exec"
            /\ pass_devices'[t] = devices
            /\ new_devices'[t] = NewDevices(devices)
            /\ index'[t] = 1
            /\ issued'[t] = <<NewDevices(devices)[1]>>
            /\ outcomes'[t] = <<>>
            /\ emitted'[t] = <<>>
            /\ target'[t] = <<>>
            /\ \A u \in Tasks \ {t} :
                  /\ pc'[u] = pc[u]
                  /\ new_devices'[u] = new_devices[u]
                  /\ issued'[u] = issued[u]
                  /\ emitted'[u] = emitted[u]

\* C29: while the host is running, a manual sync_states trigger starts the
\* pass a timer tick starts: over the same device list, with the same groups
\* and the same first command; the steps that follow (retry, dispatch, pause)
\* are those of the task and do not depend on what started it
C29_ManualTriggerAsTick ==
    /\ [][(hass_running /\ HandleSyncStates) => StartsFullPass]_vars
    /\ [][\A i \in Intervals : (hass_running /\ Tick(i)) => StartsFullPass]_vars

\* no tick was ever handled, and a pass started by the manual trigger has
\* polled a group of two sub-devices once and dispatched to both
C29_Witness ==
    /\ last_tick = None
    /\ hass_running
    /\ pc[1] = "pause"
    /\ Len(issued[1]) = 1
    /\ Len(emitted[1]) = 2

\* C30: a targeted call issues get-status commands for the prefix of its
\* device only, at most two of them and the second only after a failed first;
\* when it is done it has published to the devices of the list that share
\* that serial:ignored prefix and to no other
C30_TargetedPollsOwnGroup ==
    \A t \in Tasks : target[t] # <<>> =>
        LET own == <<target[t][1][1], target[t][1][2]>>
            group == {i \in 1..Len(pass_devices[t]) :
                         <<pass_devices[t][i][1], pass_devices[t][i][2]>> = own}
        IN  /\ \A k \in 1..Len(issued[t]) : <<issued[t][k][1], issued[t][k][2]>> = own
            /\ Len(issued[t]) \in {1, 2}
            /\ Len(issued[t]) = 2 => ~outcomes[t][1].success
            /\ \A k \in 1..Len(emitted[t]) : emitted[t][k].dev \in group
            /\ pc[t] = "done" =>
                  /\ Len(issued[t]) = IF outcomes[t][1].success THEN 1 ELSE 2
                  /\ {emitted[t][k].dev : k \in 1..Len(emitted[t])} = group

\* a targeted call for A:x:1 in a list that also holds A:x:2 and B:x:2 is done
\* after one retry and has published to the two devices of A:x
C30_Witness ==
    /\ target[1] = <<<<"A", "x", 1>>>>
    /\ pass_devices[1] = <<<<"A", "x", 1>>, <<"B", "x", 2>>, <<"A", "x", 2>>>>
    /\ pc[1] = "done"
    /\ Len(issued[1]) = 2
    /\ Len(emitted[1]) = 2

\* C31: when the first get-status attempt of a group fails and the single
\* retry succeeds with integer output s, the executor has been invoked exactly
\* twice for the group, the dispatch has run, every member device has been
\* sent an update, and every update of the group is available = true with
\* status s: none is available = false
C31_RetrySucceeds ==
    \A t \in Tasks :
        (/\ Len(outcomes[t]) >= 2
         /\ ~outcomes[t][1].success
         /\ outcomes[t][2].success
         /\ IsIntText(outcomes[t][2].output))
        => /\ pc[t] = "pause"
           /\ Len(outcomes[t]) = 2
           /\ Len(issued[t]) = 2
           /\ \A i \in Members(t) : \E k \in 1..Len(emitted[t]) : emitted[t][k].dev = i
           /\ \A k \in 1..Len(emitted[t]) :
                 /\ emitted[t][k].payload.available
                 /\ emitted[t][k].payload.status = ParseInt(outcomes[t][2].output)

\* a group of two sub-devices failed once, then gave status 7 on the retry
C31_Witness ==
    \E t \in Tasks :
        /\ Len(outcomes[t]) = 2
        /\ ~outcomes[t][1].success
        /\ outcomes[t][2].success
        /\ outcomes[t][2].output = <<"7">>
        /\ Cardinality(Members(t)) = 2
        /\ Len(emitted[t]) = 2

\* C32: once async_unload_entry has torn the coordinator down, no interval
\* timer is armed, whatever happens afterwards
C32_NoTimerAfterUnload ==
    udp_transport = "closed" => \A i \in Intervals : timers[i] = 0

\* C33: at most one interval timer is armed at any time, and a step that arms
\* a timer leaves no other timer armed
C33_AtMostOneTimer ==
    /\ [](timers[INITIAL_SYNC_INTERVAL] + timers[SYNC_INTERVAL] <= 1)
    /\ [][\A i \in Intervals :
            timers'[i] > timers[i] =>
                /\ timers'[i] = 1
                /\ \A j \in Intervals \ {i} : timers'[j] = 0]_vars

\* the regular timer is armed, the initial one was cancelled by the switch
C33_Witness ==
    /\ ~is_initial_sync
    /\ unsub_interval = SYNC_INTERVAL
    /\ timers[SYNC_INTERVAL] = 1
    /\ timers[INITIAL_SYNC_INTERVAL] = 0

\* C34: a manual sync_states trigger leaves the initial-sync flag, the armed
\* timers and the cancel handle as they were
C34_ManualLeavesRegime ==
    [][HandleSyncStates =>
          /\ is_initial_sync' = is_initial_sync
          /\ timers' = timers
          /\ unsub_interval' = unsub_interval]_vars

\* C35: when the dispatch for a polled group runs, an entity whose device has
\* another serial:ignored prefix than the group is handed nothing and keeps
\* its state
C35_OtherGroupUntouched ==
    [][\A t \in Tasks :
          (/\ pc[t] = "exec"
           /\ pc'[t] = "pause"
           /\ <<entity.id[1], entity.id[2]>> #
                  <<new_devices[t][index[t]][1], new_devices[t][index[t]][2]>>)
          => (entity' = entity /\ delivered' = delivered)]_vars

\* a command among names was reported failed, and none among names succeeded
Failed(commands, names) ==
    /\ \E k \in 1..Len(commands) : commands[k].cmd \in names /\ ~commands[k].ok
    /\ \A k \in 1..Len(commands) : commands[k].cmd \in names => ~commands[k].ok

\* C36: each event on a switch decides its on/off state alone: an available
\* update sets it by the switch rule (on iff status is not 0 and shares a bit
\* with the smap), a successful turn_on sets it on, a successful turn_off sets
\* it off, whatever the state was; an unavailable update and a failed command
\* leave it as it was.  So the state is the one of the latest such event.
C36_SwitchLastWriteWins ==
    [][entity.class = "switch" =>
          /\ call'.fn = "_handle_device_update" =>
                IF call'.arg.available
                THEN (entity'.state # 0) <=>
                        (call'.arg.status # 0 /\ Overlap(entity.smap, call'.arg.status))
                ELSE entity'.state = entity.state
          /\ call'.fn = "async_turn_on" =>
                IF result'.commands[1].ok THEN entity'.state # 0
                ELSE entity'.state = entity.state
          /\ call'.fn = "async_turn_off" =>
                IF result'.commands[1].ok THEN entity'.state = 0
                ELSE entity'.state = entity.state]_vars

\* a switch that an update reported on is off after a successful turn_off
C36_Witness ==
    /\ entity.class = "switch"
    /\ delivered # <<>>
    /\ delivered[1].available
    /\ delivered[1].status = entity.smap
    /\ call.fn = "async_turn_off"
    /\ result.commands[1].ok
    /\ entity.state = 0

\* C37: when the executor reports failure for the command of an operation,
\* what that command would have set stays as it was: on/off (and position,
\* colour) for set-status and set-rgb-color, speed for set-speed, brightness
\* for set-intensity
C37_FailedCommandKeepsState ==
    [][call'.fn \notin {"none", "_handle_device_update"} =>
          LET commands == result'.commands
          IN  /\ entity.class = "switch" =>
                    (Failed(commands, {"set-status"}) => entity'.state = entity.state)
              /\ entity.class = "fan" =>
                    /\ Failed(commands, {"set-status", "set-speed"})
                          => entity'.state = entity.state
                    /\ Failed(commands, {"set-speed"})
                          => (entity'.speed = entity.speed
                              /\ entity'.percentage = entity.percentage)
              /\ entity.class = "cover" =>
                    (Failed(commands, {"set-status"}) =>
                        /\ entity'.state = entity.state
                        /\ entity'.current_position = entity.current_position)
              /\ entity.class = "light" =>
                    /\ Failed(commands, {"set-status", "set-rgb-color"})
                          => (entity'.state = entity.state
                              /\ entity'.rgb_color = entity.rgb_color)
                    /\ Failed(commands, {"set-intensity"})
                          => entity'.brightness = entity.brightness]_vars

\* a fan was turned on with a percentage: set-status succeeded, set-speed
\* failed, and the fan is on at the speed it had
C37_Witness ==
    /\ entity.class = "fan"
    /\ call.fn = "async_turn_on"
    /\ Len(result.commands) = 2
    /\ result.commands[1].ok
    /\ ~result.commands[2].ok
    /\ entity.state = 1
    /\ entity.speed = 0

\* C38: for every requested position p and current position c, set-position
\* returns and issues exactly one command: (0, 0) for p = 0, (1, 0) for
\* p = 100, (1, p - c) for c < p < 100, (0, c - p) for 0 < p < c; when the
\* command succeeds the position held becomes p
C38_SetPositionOneCommand ==
    [][call'.fn = "async_set_cover_position" =>
          LET p == call'.arg
              c == entity.current_position
          IN  /\ result'.kind = "return"
              /\ Len(result'.commands) = 1
              /\ p = 0 => result'.commands[1].args = <<0, 0>>
              /\ p = 100 => result'.commands[1].args = <<1, 0>>
              /\ (c < p /\ p < 100) => result'.commands[1].args = <<1, p - c>>
              /\ (0 < p /\ p < c) => result'.commands[1].args = <<0, c - p>>
              /\ result'.commands[1].ok => entity'.current_position = p]_vars

\* C39: when a light's turn_on returns and every command it issued succeeded,
\* the light is on
C39_TurnOnTurnsOn ==
    [][(/\ entity.class = "light"
        /\ call'.fn = "async_turn_on"
        /\ result'.kind = "return"
        /\ \A k \in 1..Len(result'.commands) : result'.commands[k].ok)
       => entity'.state # 0]_vars

\* C40: a device refresh whose fetch got a status other than 200 or a result
\* other than success leaves the stored device list as it was and removes no
\* entity
C40_FailedFetchKeepsDevices ==
    [][(/\ call'.fn = "async_refresh_devices"
        /\ call'.arg.kind = "response"
        /\ (call'.arg.status # 200 \/ call'.arg.result # "success"))
       => (devices' = devices /\ subscription' = subscription)]_vars

====
